---------------------------- MODULE Spec2Model ----------------------------
(***************************************************************************)
(* A model of src/src/data/code2ast.py: the constituency graph built from  *)
(* a parser's tree (code2ast), the dependency projection (selectHead,      *)
(* enrichAstWithDeps, getDependencyTree), the edge encoding (labelDepTree, *)
(* ComplexEdgeLabels), the reconstruction (from_label_dep_tree_to_ast) and *)
(* the attachment score (getUAS).                                          *)
(*                                                                         *)
(* Graphs are records [nodes, attr, edges]: nodes is the set of node ids,  *)
(* attr maps an id to its attribute record, edges is the sequence of edges *)
(* in insertion order (networkx keeps adjacency in insertion order, which  *)
(* list(G.in_edges(n))[0] depends on).  A node's attribute record has the  *)
(* keys the code gave it: type, is_terminal, start, end for a node copied  *)
(* from the parser's tree, type and is_terminal alone for a nonterminal    *)
(* the reconstruction creates.                                             *)
(***************************************************************************)
EXTENDS Integers, Sequences, FiniteSets, TLC

VARIABLES
    tree,      \* the parser's tree for the source text: [parent, top]
    lang,      \* the lang argument of code2ast and from_label_dep_tree_to_ast
    pc,        \* position of the pipeline
    G,         \* the graph returned by code2ast, enriched in place
    T,         \* the dependency tree returned by getDependencyTree
    T_ast,     \* the graph from_label_dep_tree_to_ast is building
    nodes,     \* the list the running for-loop still has to visit
    err,       \* the exception that ended the pipeline, or "none"
    T_true,    \* getUAS: first argument
    T_pred,    \* getUAS: second argument
    uas        \* getUAS: its outcome

vars == <<tree, lang, pc, G, T, T_ast, nodes, err, T_true, T_pred, uas>>

-----------------------------------------------------------------------------
(* Bounds *)

\* Largest number of nodes of a parser tree.
MaxNodes == 7

\* Largest number of nodes of a tree handed to getUAS.
MaxTokens == 3

-----------------------------------------------------------------------------
(* Python values *)

\* The value None (getCandidate's "no candidate").
None == -1

\* The outcome of an expression that raises IndexError (list(...)[0] on an
\* empty list, path[i] out of range).
IndexError == -2

Max(S) == CHOOSE x \in S : \A y \in S : y <= x

Min(S) == CHOOSE x \in S : \A y \in S : x <= y

\* sorted(S) for a set of integers.
RECURSIVE Sorted(_)
Sorted(S) == IF S = {} THEN <<>> ELSE <<Min(S)>> \o Sorted(S \ {Min(S)})

Range(s) == {s[i] : i \in 1..Len(s)}

\* seq[1:-1]
Interior(s) == IF Len(s) <= 2 THEN <<>> ELSE SubSeq(s, 2, Len(s) - 1)

\* seq[k:] with Python's meaning of a negative k.
SliceFrom(s, k) ==
    LET from == IF k >= 0 THEN k ELSE IF Len(s) + k < 0 THEN 0 ELSE Len(s) + k
    IN  IF from >= Len(s) THEN <<>> ELSE SubSeq(s, from + 1, Len(s))

\* seq.index(x) for an x that occurs in seq (0-based).
IndexOf(s, x) == Min({i \in 1..Len(s) : s[i] = x}) - 1

-----------------------------------------------------------------------------
(* The parser's tree.  Its nodes are named 1..n in level order (node 1 is   *)
(* the root, parent[i] < i, parents nondecreasing), so that every ordered   *)
(* tree shape occurs once; children are ordered by name.  Leaves are the    *)
(* tokens: the k-th leaf in document order (k = 0, 1, ...) spans the bytes  *)
(* [2k, 2k+1), a one-byte token followed by one byte of white space, so    *)
(* tokens are non-empty and their start offsets increase in document order.*)

RECURSIVE NativeTrees(_)
NativeTrees(n) ==
    IF n = 1 THEN {<<0>>}
    ELSE UNION {{Append(p, k) : k \in (IF n = 2 THEN 1 ELSE p[n - 1])..(n - 1)}
                    : p \in NativeTrees(n - 1)}

\* node.children
children(t, i) ==
    SelectSeq([j \in 1..Len(t.parent) |-> j], LAMBDA j : t.parent[j] = i)

RECURSIVE DocOrder(_, _)
RECURSIVE DocOrderAll(_, _)
\* The nodes of the subtree of i in document (pre-)order.
DocOrder(t, i) == <<i>> \o DocOrderAll(t, children(t, i))
DocOrderAll(t, kids) ==
    IF kids = <<>> THEN <<>>
    ELSE DocOrder(t, Head(kids)) \o DocOrderAll(t, Tail(kids))

Leaves(t, i) == SelectSeq(DocOrder(t, i), LAMBDA j : children(t, j) = <<>>)

\* node.start_byte, node.end_byte
start_byte(t, i) ==
    IF i = 1 /\ children(t, 1) = <<>> THEN 0
    ELSE 2 * IndexOf(Leaves(t, 1), Head(Leaves(t, i)))

end_byte(t, i) ==
    IF i = 1 /\ children(t, 1) = <<>> THEN 0
    ELSE LET l == Leaves(t, i) IN 2 * IndexOf(Leaves(t, 1), l[Len(l)]) + 1

\* Grammar symbols of the inner nodes below the top level, one per node name:
\* the code only copies a nonterminal's type, so giving every inner node its
\* own symbol loses no behaviour and makes every copy traceable.
TypeNames ==
    <<"module", "parameters", "block", "expression_statement", "call",
      "argument_list", "return_statement", "binary_operator", "attribute",
      "assignment", "if_statement", "for_statement">>

\* node.type
type(t, l, i) ==
    IF i = 1 THEN (IF l = "python" THEN "module" ELSE "program")
    ELSE IF children(t, i) = <<>> THEN "identifier"
    ELSE IF t.parent[i] = 1 THEN t.top
    ELSE TypeNames[i]

-----------------------------------------------------------------------------
(* networkx graphs *)

EmptyGraph == [nodes |-> {}, attr |-> <<>>, edges |-> <<>>]

\* The value of a variable that holds no graph yet.
NoGraph == [nodes |-> {}, attr |-> <<>>, edges |-> <<>>, none |-> TRUE]

\* G.add_node(id, **a)
add_node(g, id, a) ==
    [g EXCEPT !.nodes = @ \cup {id},
              !.attr = [m \in g.nodes \cup {id} |-> IF m = id THEN a ELSE g.attr[m]]]

has_edge(g, u, v) == \E i \in 1..Len(g.edges) : g.edges[i].src = u /\ g.edges[i].dst = v

\* G.add_edge(u, v) that leaves out the label it was given.
add_edge_unlabelled(g, u, v, lab) ==
    IF has_edge(g, u, v) THEN g
    ELSE [g EXCEPT !.edges = Append(@, [src |-> u, dst |-> v, label |-> ""])]

\* G.add_edge(u, v, label = lab); lab = "" when the call gives no label.  An
\* edge that exists keeps its place and takes the new label.
add_edge(g, u, v, lab) ==
    IF has_edge(g, u, v)
    THEN [g EXCEPT !.edges = [i \in 1..Len(g.edges) |->
                IF g.edges[i].src = u /\ g.edges[i].dst = v /\ lab # ""
                THEN [g.edges[i] EXCEPT !.label = lab] ELSE g.edges[i]]]
    ELSE [g EXCEPT !.edges = Append(@, [src |-> u, dst |-> v, label |-> lab])]

\* list(G.in_edges(n)), as the list of the edges' sources
in_edges(g, n) ==
    LET es == SelectSeq(g.edges, LAMBDA e : e.dst = n)
    IN  [i \in 1..Len(es) |-> es[i].src]

\* The nodes a directed path leads to from s (the keys of
\* nx.single_source_shortest_path_length(G, s)).
RECURSIVE reachable(_, _, _)
reachable(g, frontier, seen) ==
    IF frontier = {} THEN seen
    ELSE LET next == {g.edges[i].dst : i \in {j \in 1..Len(g.edges) :
                                              g.edges[j].src \in frontier}}
         IN  reachable(g, next \ seen, seen \cup next)

\* The neighbours of u in nx.Graph(G), the undirected view.
neighbors(g, u) ==
    {g.edges[i].dst : i \in {j \in 1..Len(g.edges) : g.edges[j].src = u}}
    \cup {g.edges[i].src : i \in {j \in 1..Len(g.edges) : g.edges[j].dst = u}}

\* nx.shortest_path(nx.Graph(G), source = u, target = v) as a sequence of
\* nodes; <<>> when networkx raises (a node is missing, or there is no path).
RECURSIVE simple_path(_, _, _, _)
simple_path(g, u, v, visited) ==
    IF u = v THEN <<u>>
    ELSE LET found == {simple_path(g, w, v, visited \cup {u}) :
                           w \in neighbors(g, u) \ (visited \cup {u})} \ {<<>>}
         IN  IF found = {} THEN <<>>
             ELSE <<u>> \o (CHOOSE q \in found : \A r \in found : Len(q) <= Len(r))

shortest_path(g, u, v) ==
    IF u \notin g.nodes \/ v \notin g.nodes THEN <<>> ELSE simple_path(g, u, v, {})

-----------------------------------------------------------------------------
(* code2ast *)

\* getId
getId(g) == IF Cardinality(g.nodes) = 0 THEN 0 ELSE Max(g.nodes) + 1

\* getGraphFromTree(node, G, id_father), with forChildren the for-loop over
\* the children still to visit.
RECURSIVE forChildren(_, _, _, _, _)
forChildren(t, l, kids, g, id_father) ==
    IF kids = <<>> THEN g
    ELSE LET child == Head(kids)
             is_terminal_child == (Len(children(t, child)) = 0)
             id_child == getId(g)
             g1 == add_node(g, id_child,
                            [type |-> type(t, l, child),
                             is_terminal |-> is_terminal_child,
                             start |-> start_byte(t, child),
                             end |-> end_byte(t, child)])
             g2 == add_edge(g1, id_father, id_child, "")
             g3 == forChildren(t, l, children(t, child), g2, id_child)
         IN  forChildren(t, l, Tail(kids), g3, id_father)

getGraphFromTree(t, l, node, g, id_father) ==
    forChildren(t, l, children(t, node), g, id_father)

\* code2ast(code, parser, lang): t is the tree parser.parse returns for the
\* preprocessed code.  A lang other than the two it knows falls off the end
\* of the function, which returns None.
code2ast(t, l) ==
    IF l \in {"python", "javascript"}
    THEN getGraphFromTree(t, l, 1,
             add_node(EmptyGraph, 0,
                      [type |-> type(t, l, 1), is_terminal |-> FALSE,
                       start |-> start_byte(t, 1), end |-> end_byte(t, 1)]),
             0)
    ELSE NoGraph

-----------------------------------------------------------------------------
(* The dependency projection *)

terminals(g) == {n \in g.nodes : g.attr[n].is_terminal}

\* nodes.sort(key = start); nodes[0] for a non-empty set of nodes.  Token
\* offsets are distinct, so the least start is unique; were two equal, the
\* stable sort would keep the list's order, taken here as ascending id.
first_by_start(g, S) ==
    LET least == {n \in S : \A m \in S : g.attr[n].start <= g.attr[m].start}
    IN  Min(least)

\* getCandidate with the filter start <= start in place of start < start.
getCandidate_le(g, level, start) ==
    LET reach == reachable(g, {level}, {level})
        terms == {n \in reach : g.attr[n].is_terminal}
        left  == {n \in terms : g.attr[n].start <= start}
    IN  IF Cardinality(left) = 0 THEN None ELSE first_by_start(g, left)

\* getCandidate taking nodes[-1], the nearest terminal before start, in
\* place of nodes[0].
getCandidate_nearest(g, level, start) ==
    LET reach == reachable(g, {level}, {level})
        terms == {n \in reach : g.attr[n].is_terminal}
        left  == {n \in terms : g.attr[n].start < start}
    IN  IF Cardinality(left) = 0 THEN None
        ELSE Max({n \in left : \A m \in left : g.attr[m].start <= g.attr[n].start})

\* getCandidate(G, level, start)
getCandidate(g, level, start) ==
    LET reach == reachable(g, {level}, {level})
        terms == {n \in reach : g.attr[n].is_terminal}
        left  == {n \in terms : g.attr[n].start < start}
    IN  IF Cardinality(left) = 0 THEN None ELSE first_by_start(g, left)

\* The while-loop of selectHead from the ancestor father on.
RECURSIVE climb(_, _, _)
climb(g, n, father) ==
    LET cand == getCandidate(g, father, g.attr[n].start)
    IN  IF cand # None THEN cand
        ELSE IF in_edges(g, father) = <<>> THEN IndexError
        ELSE climb(g, n, in_edges(g, father)[1])

\* selectHead(G, n)
selectHead(g, n) ==
    IF in_edges(g, n) = <<>> THEN IndexError
    ELSE climb(g, n, in_edges(g, n)[1])

\* getRoot taking nodes[-1], the rightmost terminal, in place of nodes[0].
getRoot_last(g) ==
    IF terminals(g) = {} THEN IndexError
    ELSE Max({n \in terminals(g) :
                 \A m \in terminals(g) : g.attr[m].start <= g.attr[n].start})

\* getRoot(G); IndexError when G has no terminal.
getRoot(g) ==
    IF terminals(g) = {} THEN IndexError ELSE first_by_start(g, terminals(g))

\* The list enrichAstWithDeps and labelDepTree loop over.
dependents(g, root) == Sorted({n \in g.nodes : root # n /\ g.attr[n].is_terminal})

\* getDependencyTree without its filter_node.
getDependencyTree_all(g) ==
    [nodes |-> g.nodes, attr |-> g.attr, edges |-> g.edges]

\* getDependencyTree(G).  filter_edge returns G[n1][n2].get("label",
\* 'dependency'), a non-empty string whatever the edge, so every edge between
\* two kept nodes is kept.
getDependencyTree(g) ==
    LET keep == {n \in g.nodes : g.attr[n].is_terminal}
    IN  [nodes |-> keep,
         attr  |-> [n \in keep |-> g.attr[n]],
         edges |-> SelectSeq(g.edges, LAMBDA e : e.src \in keep /\ e.dst \in keep
                        /\ (IF e.label = "" THEN "dependency" ELSE e.label) # "")]

\* getHeadDepTree(T, n)
getHeadDepTree(t, n) == IF in_edges(t, n) = <<>> THEN IndexError ELSE in_edges(t, n)[1]

-----------------------------------------------------------------------------
(* The edge encoding *)

\* An operation that raised: the empty sequence where a value is a
\* one-element sequence, a graph marked none where a value is a graph.
Raised == <<>>

IsNone(g) == "none" \in DOMAIN g

\* seq[i] with Python's meaning of a negative i; Raised when out of range.
Item(s, i) ==
    IF 0 <= i /\ i < Len(s) THEN <<s[i + 1]>>
    ELSE IF i < 0 /\ Len(s) + i >= 0 THEN <<s[Len(s) + i + 1]>>
    ELSE Raised

\* ComplexEdgeLabels.__init__
ComplexEdgeLabels(non_terminals, depths, special_index) ==
    [non_terminals |-> non_terminals, depths |-> depths,
     special_index |-> special_index]

\* ComplexEdgeLabels.__str__: the index and the joined suffix, kept as a pair
\* rather than as one string.
label_str(l) == <<l.special_index, SliceFrom(l.non_terminals, l.special_index + 1)>>

\* get_node_to_append appending non_terminals[special_index:].
get_node_to_append_from(l, path) ==
    LET node_append == Item(path, l.special_index)
    IN  IF node_append = Raised THEN Raised
        ELSE <<[node_append |-> node_append[1],
                to_append |-> SliceFrom(l.non_terminals, l.special_index)]>>

\* ComplexEdgeLabels.get_node_to_append(path): <<node_append, to_append>>
get_node_to_append(l, path) ==
    LET node_append == Item(path, l.special_index)
    IN  IF node_append = Raised THEN Raised
        ELSE <<[node_append |-> node_append[1],
                to_append |-> SliceFrom(l.non_terminals, l.special_index + 1)]>>

\* getDepth(G, n, root)
getDepth(g, n, root) == Len(Interior(shortest_path(g, n, root)))

\* The spine sliced [2:-1], without the father of h.
spine_to_skip_father(g, h, n) ==
    LET path == shortest_path(g, h, n)
    IN  IF Len(path) <= 3 THEN <<>> ELSE SubSeq(path, 3, Len(path) - 1)

\* The spine labelDepTree takes for the dependent n with head h: the inner
\* nodes of the path from h to n in nx.Graph(G); <<>> also when there is no
\* path.
spine_to(g, h, n) == Interior(shortest_path(g, h, n))

\* special_index counted from 1 (spine_head.index(m) + 1).
special_index_from_one(spine_n, spine_head) ==
    LET shared == {j \in 1..Len(spine_n) : spine_n[j] \in Range(spine_head)}
    IN  IF shared = {} THEN Len(spine_n) - 1
        ELSE IndexOf(spine_head, spine_n[Max(shared)]) + 1

\* The index labelDepTree computes when h is not the root: the place in
\* spine_head of the last node of spine_n that spine_head holds, and
\* len(spine_n) - 1 when it holds none.
special_index(spine_n, spine_head) ==
    LET shared == {j \in 1..Len(spine_n) : spine_n[j] \in Range(spine_head)}
    IN  IF shared = {} THEN Len(spine_n) - 1
        ELSE IndexOf(spine_head, spine_n[Max(shared)])

\* The label labelDepTree computes for the edge into n (one pass of its
\* loop), as a one-element sequence, or Raised.
edge_label(g, t, root, n) ==
    LET h == getHeadDepTree(t, n)
    IN  IF h = IndexError THEN Raised
        ELSE IF h = root
        THEN LET spine == spine_to(g, h, n)
             IN  IF shortest_path(g, h, n) = <<>> THEN Raised
                 ELSE <<ComplexEdgeLabels(
                            [i \in 1..Len(spine) |-> g.attr[spine[i]].type],
                            [i \in 1..Len(spine) |-> getDepth(g, spine[i], root)],
                            0)>>
        ELSE LET h_head == getHeadDepTree(t, h)
                 spine_head == IF h_head = IndexError THEN <<>>
                               ELSE spine_to(g, h, h_head)
                 spine_n == spine_to(g, h, n)
             IN  IF h_head = IndexError \/ shortest_path(g, h, h_head) = <<>>
                    \/ shortest_path(g, h, n) = <<>>
                 THEN Raised
                 ELSE <<ComplexEdgeLabels(
                            [i \in 1..Len(spine_n) |-> g.attr[spine_n[i]].type],
                            [i \in 1..Len(spine_n) |-> getDepth(g, spine_n[i], root)],
                            special_index(spine_n, spine_head))>>

\* T[h][n]['complex_edge'] = edge_data; T[h][n]['complex_edge_str'] = str(edge_data)
set_edge_data(t, h, n, l) ==
    [t EXCEPT !.edges = [i \in 1..Len(t.edges) |->
        IF t.edges[i].src = h /\ t.edges[i].dst = n
        THEN [src |-> h, dst |-> n, label |-> t.edges[i].label,
              complex_edge |-> l, complex_edge_str |-> label_str(l)]
        ELSE t.edges[i]]]

RECURSIVE labelLoop(_, _, _, _)
labelLoop(g, t, root, todo) ==
    IF todo = <<>> THEN t
    ELSE LET l == edge_label(g, t, root, Head(todo))
         IN  IF l = Raised THEN NoGraph
             ELSE labelLoop(g, set_edge_data(t, getHeadDepTree(t, Head(todo)),
                                             Head(todo), l[1]),
                            root, Tail(todo))

\* labelDepTree(G, T): T with its edges labelled, or a graph marked none when
\* the call raises.
labelDepTree(g, t) ==
    IF getRoot(g) = IndexError THEN NoGraph
    ELSE labelLoop(g, t, getRoot(g), dependents(g, getRoot(g)))

\* T[h][n]['complex_edge'] as a one-element sequence; Raised (KeyError) when
\* the edge or the key is missing.
complex_edge(t, h, n) ==
    LET es == SelectSeq(t.edges, LAMBDA e : e.src = h /\ e.dst = n
                                             /\ "complex_edge" \in DOMAIN e)
    IN  IF es = <<>> THEN Raised ELSE <<es[1].complex_edge>>

-----------------------------------------------------------------------------
(* The reconstruction *)

\* get_correspondence comparing the 'type' attribute alone.
get_correspondence_by_type(ta, t, n) ==
    LET same == {m \in ta.nodes : ta.attr[m].type = t.attr[n].type}
    IN  IF same = {} THEN None ELSE Min(same)

\* get_correspondence(T_ast, T, n): the first node of T_ast whose attribute
\* dict equals that of n in T, or None.
get_correspondence(ta, t, n) ==
    LET same == {m \in ta.nodes : ta.attr[m] = t.attr[n]}
    IN  IF same = {} THEN None ELSE Min(same)

\* nodes.sort(key = start) of a list in ascending id order.
RECURSIVE sort_by_start(_, _)
sort_by_start(t, S) ==
    IF S = {} THEN <<>>
    ELSE LET n == first_by_start(t, S) IN <<n>> \o sort_by_start(t, S \ {n})

\* The inner for-loop of from_label_dep_tree_to_ast: the chain of fresh
\* nonterminals, then the terminal.
RECURSIVE graft(_, _, _, _)
graft(ta, to_append, node_append, a) ==
    LET m == getId(ta)
    IN  IF to_append = <<>>
        THEN add_edge(add_node(ta, m, a), m, node_append, "")
        ELSE graft(add_edge(add_node(ta, m, [type |-> Head(to_append),
                                             is_terminal |-> FALSE]),
                            m, node_append, ""),
                   Tail(to_append), m, a)

\* The scaffold from_label_dep_tree_to_ast starts from when lang is 'python'.
scaffold(t, root) ==
    add_edge(add_edge(
        add_node(add_node(add_node(EmptyGraph,
            0, [type |-> "module", is_terminal |-> FALSE]),
            1, [type |-> "function_definition", is_terminal |-> FALSE]),
            2, t.attr[root]),
        0, 1, ""), 1, 2, "")

\* One pass of the loop over the dependents: the insertion path for n, as a
\* one-element sequence, or Raised.
insertion_path(ta, t, root, n, h) ==
    IF h = root THEN <<Interior(shortest_path(ta, 2, 0))>>
    ELSE LET h_head == getHeadDepTree(t, h)
             h_correspondence == IF h = IndexError THEN None
                                 ELSE get_correspondence(ta, t, h)
             h_head_correspondence == IF h_head = IndexError THEN None
                                      ELSE get_correspondence(ta, t, h_head)
             path == shortest_path(ta, h_correspondence, h_head_correspondence)
         IN  IF h_head = IndexError \/ h_correspondence = None
                \/ h_head_correspondence = None \/ path = <<>>
             THEN Raised
             ELSE <<Interior(path)>>

\* The body of the loop for the dependent n: the grown T_ast, or a graph
\* marked none when the pass raises.
reconstruct_one(ta, t, root, n) ==
    LET h == getHeadDepTree(t, n)
        path == IF h = IndexError THEN Raised ELSE insertion_path(ta, t, root, n, h)
        edge_data == IF h = IndexError THEN Raised ELSE complex_edge(t, h, n)
        where == IF path = Raised \/ edge_data = Raised THEN Raised
                 ELSE get_node_to_append(edge_data[1], path[1])
    IN  IF where = Raised THEN NoGraph
        ELSE graft(ta, where[1].to_append, where[1].node_append, t.attr[n])

\* The exceptions the body of the loop can end with for the dependent n, as
\* the set of their names; empty when the pass raises nothing.  When
\* get_correspondence returned None, nx.shortest_path takes the None for "no
\* source" (or "no target") and returns a dict of paths, and the slice [1:-1]
\* of a dict raises TypeError (slices are not hashable) up to Python 3.11 and
\* KeyError from Python 3.12 on.
reconstruct_errors(ta, t, root, n) ==
    LET h == getHeadDepTree(t, n)
        h_head == IF h = IndexError THEN IndexError ELSE getHeadDepTree(t, h)
        path == IF h = IndexError THEN Raised ELSE insertion_path(ta, t, root, n, h)
        edge_data == IF h = IndexError THEN Raised ELSE complex_edge(t, h, n)
    IN  IF h = IndexError THEN {"IndexError"}
        ELSE IF h # root /\ h_head = IndexError THEN {"IndexError"}
        ELSE IF h # root /\ (get_correspondence(ta, t, h) = None
                             \/ get_correspondence(ta, t, h_head) = None)
        THEN {"TypeError", "KeyError"}
        ELSE IF path = Raised THEN {"NetworkXNoPath"}
        ELSE IF edge_data = Raised THEN {"KeyError"}
        ELSE IF get_node_to_append(edge_data[1], path[1]) = Raised THEN {"IndexError"}
        ELSE {}

-----------------------------------------------------------------------------
(* The attachment score.  The trees getUAS compares are undirected graphs   *)
(* over the token positions 0..n-1: [n, edges], an edge the pair <<s, t>>   *)
(* with s < t.                                                              *)

UASGraphs(k) ==
    {[n |-> k, edges |-> E] : E \in SUBSET {<<s, t>> \in (0..(k - 1)) \X (0..(k - 1)) : s < t}}

\* getUAS without its second assert.
getUAS_one_assert(tt, tp) ==
    IF tt.n # tp.n
    THEN [raised |-> "AssertionError", count |-> 0, i |-> 0]
    ELSE LET count == Cardinality({e \in tp.edges : e \in tt.edges})
             i == Cardinality(tp.edges)
         IN  IF i = 0 THEN [raised |-> "ZeroDivisionError", count |-> count, i |-> i]
             ELSE [raised |-> "none", count |-> count, i |-> i]

\* getUAS(T_true, T_pred): the exception it raises, or count and i of the
\* quotient float(count)/float(i) it returns.
getUAS(tt, tp) ==
    IF tt.n # tp.n \/ Cardinality(tt.edges) # Cardinality(tp.edges)
    THEN [raised |-> "AssertionError", count |-> 0, i |-> 0]
    ELSE LET count == Cardinality({e \in tp.edges : e \in tt.edges})
             i == Cardinality(tp.edges)
         IN  IF i = 0 THEN [raised |-> "ZeroDivisionError", count |-> count, i |-> i]
             ELSE [raised |-> "none", count |-> count, i |-> i]

-----------------------------------------------------------------------------
(* The pipeline: code2ast, enrichAstWithDeps, getDependencyTree,            *)
(* labelDepTree, from_label_dep_tree_to_ast on one source text.            *)

NoScore == [raised |-> "not called", count |-> 0, i |-> 0]

NoTree == [parent |-> <<0>>, top |-> "none"]

Trees ==
    {[parent |-> p, top |-> tp] :
        p \in UNION {NativeTrees(n) : n \in 1..MaxNodes},
        tp \in {"function_definition", "class_definition"}}

Init ==
    /\ tree \in Trees
    /\ lang \in {"python", "javascript"}
    /\ pc = "parsed"
    /\ G = NoGraph
    /\ T = NoGraph
    /\ T_ast = NoGraph
    /\ nodes = <<>>
    /\ err = "none"
    /\ T_true = NoGraph
    /\ T_pred = NoGraph
    /\ uas = NoScore

\* G, code = code2ast(code, parser, lang)
Code2Ast ==
    /\ pc = "parsed"
    /\ G' = code2ast(tree, lang)
    /\ pc' = "ast"
    /\ UNCHANGED <<tree, lang, T, T_ast, nodes, err, T_true, T_pred, uas>>

\* enrichAstWithDeps(G) up to its loop: getRoot raises IndexError on a graph
\* without terminals.
EnrichStart ==
    /\ pc = "ast"
    /\ IF getRoot(G) = IndexError
       THEN /\ pc' = "error"
            /\ err' = "IndexError"
            /\ nodes' = nodes
       ELSE /\ nodes' = dependents(G, getRoot(G))
            /\ pc' = IF nodes' = <<>> THEN "enriched" ELSE "enrich"
            /\ err' = err
    /\ UNCHANGED <<tree, lang, G, T, T_ast, T_true, T_pred, uas>>

\* One pass of the loop of enrichAstWithDeps, on the graph as the passes
\* before it left it.
EnrichStep ==
    /\ pc = "enrich"
    /\ LET n == Head(nodes)
           h == selectHead(G, n)
       IN  IF h = IndexError
           THEN /\ pc' = "error"
                /\ err' = "IndexError"
                /\ UNCHANGED <<G, nodes>>
           ELSE /\ G' = add_edge(G, h, n, "dependency")
                /\ nodes' = Tail(nodes)
                /\ pc' = IF nodes' = <<>> THEN "enriched" ELSE "enrich"
                /\ err' = err
    /\ UNCHANGED <<tree, lang, T, T_ast, T_true, T_pred, uas>>

\* T = getDependencyTree(G)
GetDependencyTree ==
    /\ pc = "enriched"
    /\ T' = getDependencyTree(G)
    /\ pc' = "dep"
    /\ UNCHANGED <<tree, lang, G, T_ast, nodes, err, T_true, T_pred, uas>>

\* labelDepTree(G0, T), G0 being the ast "without dependency labels" its
\* comment asks for: the graph code2ast returns for the same text.
LabelDepTree ==
    /\ pc = "dep"
    /\ LET labelled == labelDepTree(code2ast(tree, lang), T)
       IN  IF IsNone(labelled)
           THEN /\ pc' = "error"
                /\ err' = "IndexError"
                /\ T' = T
           ELSE /\ T' = labelled
                /\ pc' = "labelled"
                /\ err' = err
    /\ UNCHANGED <<tree, lang, G, T_ast, nodes, T_true, T_pred, uas>>

\* from_label_dep_tree_to_ast(T, lang) up to its loop.  Only lang ==
\* 'python' has a branch; any other lang returns the empty graph.
FromLabelStart ==
    /\ pc = "labelled"
    /\ IF getRoot(T) = IndexError
       THEN /\ pc' = "error"
            /\ err' = "IndexError"
            /\ UNCHANGED <<T_ast, nodes>>
       ELSE IF lang = "python"
       THEN /\ T_ast' = scaffold(T, getRoot(T))
            /\ nodes' = sort_by_start(T, T.nodes \ {getRoot(T)})
            /\ pc' = IF nodes' = <<>> THEN "done" ELSE "recon"
            /\ err' = err
       ELSE /\ T_ast' = EmptyGraph
            /\ pc' = "done"
            /\ UNCHANGED <<nodes, err>>
    /\ UNCHANGED <<tree, lang, G, T, T_true, T_pred, uas>>

\* One pass of the loop of from_label_dep_tree_to_ast.
FromLabelStep ==
    /\ pc = "recon"
    /\ LET grown == reconstruct_one(T_ast, T, getRoot(T), Head(nodes))
       IN  IF IsNone(grown)
           THEN /\ pc' = "error"
                /\ err' \in reconstruct_errors(T_ast, T, getRoot(T), Head(nodes))
                /\ UNCHANGED <<T_ast, nodes>>
           ELSE /\ T_ast' = grown
                /\ nodes' = Tail(nodes)
                /\ pc' = IF nodes' = <<>> THEN "done" ELSE "recon"
                /\ err' = err
    /\ UNCHANGED <<tree, lang, G, T, T_true, T_pred, uas>>

Next ==
    \/ Code2Ast
    \/ EnrichStart
    \/ EnrichStep
    \/ GetDependencyTree
    \/ LabelDepTree
    \/ FromLabelStart
    \/ FromLabelStep

Spec == Init /\ [][Next]_vars

-----------------------------------------------------------------------------
(* getUAS on its own: every pair of graphs of up to MaxTokens nodes. *)

InitUAS ==
    /\ tree = NoTree
    /\ lang = "python"
    /\ pc = "uas"
    /\ G = NoGraph
    /\ T = NoGraph
    /\ T_ast = NoGraph
    /\ nodes = <<>>
    /\ err = "none"
    /\ T_true \in UNION {UASGraphs(k) : k \in 0..MaxTokens}
    /\ T_pred \in UNION {UASGraphs(k) : k \in 0..MaxTokens}
    /\ uas = NoScore

GetUAS ==
    /\ pc = "uas"
    /\ uas' = getUAS(T_true, T_pred)
    /\ pc' = "scored"
    /\ UNCHANGED <<tree, lang, G, T, T_ast, nodes, err, T_true, T_pred>>

NextUAS == GetUAS

SpecUAS == InitUAS /\ [][NextUAS]_vars

-----------------------------------------------------------------------------
(* from_label_dep_tree_to_ast on its own, called with a labelled graph of   *)
(* the caller's making: up to MaxTokens terminals 0..k-1, every terminal    *)
(* but 0 with one head of smaller id, start offsets in any order (so that a *)
(* head may start after its dependent), and a label on every edge.          *)

LabelChoices ==
    {ComplexEdgeLabels(<<"function_definition">>, <<0>>, 0),
     ComplexEdgeLabels(<<"function_definition", "block">>, <<0, 1>>, 0)}

LabelledTrees(k) ==
    {[nodes |-> 0..(k - 1),
      attr  |-> [n \in 0..(k - 1) |->
                    [type |-> "identifier", is_terminal |-> TRUE,
                     start |-> 2 * order[n], end |-> 2 * order[n] + 1]],
      edges |-> [n \in 1..(k - 1) |->
                    [src |-> head[n], dst |-> n, label |-> "dependency",
                     complex_edge |-> l[n], complex_edge_str |-> label_str(l[n])]]] :
        order \in {f \in [0..(k - 1) -> 0..(k - 1)] :
                      \A a, b \in 0..(k - 1) : f[a] = f[b] => a = b},
        head \in {f \in [1..(k - 1) -> 0..(k - 1)] : \A n \in 1..(k - 1) : f[n] < n},
        l \in [1..(k - 1) -> LabelChoices]}

InitFromLabel ==
    /\ tree = NoTree
    /\ lang \in {"python", "javascript"}
    /\ pc = "labelled"
    /\ G = NoGraph
    /\ T \in UNION {LabelledTrees(k) : k \in 1..MaxTokens}
    /\ T_ast = NoGraph
    /\ nodes = <<>>
    /\ err = "none"
    /\ T_true = NoGraph
    /\ T_pred = NoGraph
    /\ uas = NoScore

NextFromLabel ==
    \/ FromLabelStart
    \/ FromLabelStep

SpecFromLabel == InitFromLabel /\ [][NextFromLabel]_vars

-----------------------------------------------------------------------------
(* Properties *)

\* The pipeline holds a constituency graph.
HasGraph == pc # "parsed" /\ ~IsNone(G)

\* The pipeline holds a dependency tree.
HasDepTree == pc \in {"dep", "labelled", "recon", "done"}

\* The pipeline holds a labelled dependency tree.
HasLabels == pc \in {"labelled", "recon", "done"}

\* The number of head edges from n up to root in t when that walk meets no
\* node twice and stays within limit edges, and -1 otherwise.
RECURSIVE StepsToRoot(_, _, _, _, _)
StepsToRoot(t, n, root, seen, limit) ==
    IF n = root THEN 0
    ELSE IF limit = 0 \/ n \in seen \/ getHeadDepTree(t, n) = IndexError THEN -1
    ELSE LET rest == StepsToRoot(t, getHeadDepTree(t, n), root, seen \cup {n}, limit - 1)
         IN  IF rest = -1 THEN -1 ELSE rest + 1

\* C1: once enrichAstWithDeps(G) has run, getDependencyTree(G) has exactly
\* the N terminals of G as nodes and N-1 edges, getRoot(G) has no incoming
\* edge, every other terminal has exactly one, and the head edges lead from
\* every node to getRoot(G) in at most N-1 steps, no node met twice.
C1_DependencyTreeIsRootedTree ==
    HasDepTree =>
        LET N == Cardinality(terminals(code2ast(tree, lang)))
            root == getRoot(G)
        IN  /\ N >= 1
            /\ T.nodes = terminals(code2ast(tree, lang))
            /\ \A n \in T.nodes : T.attr[n] = code2ast(tree, lang).attr[n]
            /\ Len(T.edges) = N - 1
            /\ \A i, j \in 1..Len(T.edges) :
                   (T.edges[i].src = T.edges[j].src /\ T.edges[i].dst = T.edges[j].dst)
                       => i = j
            /\ Len(in_edges(T, root)) = 0
            /\ \A n \in T.nodes \ {root} : Len(in_edges(T, n)) = 1
            /\ \A n \in T.nodes : StepsToRoot(T, n, root, {}, N - 1) \in 0..(N - 1)

\* C1 witness: a dependency tree of four or more terminals in which some
\* terminal is two or more head edges away from the root.
C1_Witness ==
    /\ pc = "dep"
    /\ Cardinality(T.nodes) >= 4
    /\ \E n \in T.nodes : StepsToRoot(T, n, getRoot(G), {}, Cardinality(T.nodes)) >= 2

\* C2: for every terminal n other than getRoot(G), selectHead(G, n) is a
\* terminal whose start is strictly less than that of n, and it is the same
\* node on every invocation: the head the loop of enrichAstWithDeps got for n
\* (the source of n's dependency edge) is the one a later invocation on G
\* returns.
C2_HeadPrecedesAndIsStable ==
    HasGraph =>
        \A n \in terminals(G) \ {getRoot(G)} :
            /\ selectHead(G, n) \in terminals(G)
            /\ G.attr[selectHead(G, n)].start < G.attr[n].start
            /\ \A i \in 1..Len(G.edges) :
                   (G.edges[i].label = "dependency" /\ G.edges[i].dst = n)
                       => G.edges[i].src = selectHead(G, n)

\* C2 witness: in the middle of enrichAstWithDeps, a terminal that has its
\* dependency edge already and whose head is not the leftmost terminal.
C2_Witness ==
    /\ pc = "enrich"
    /\ \E i \in 1..Len(G.edges) :
           /\ G.edges[i].label = "dependency"
           /\ G.edges[i].src # getRoot(G)
           /\ selectHead(G, G.edges[i].dst) = G.edges[i].src

\* The ancestors selectHead visits for n, from its father up to the node
\* without a father.
RECURSIVE ancestors(_, _)
ancestors(g, n) ==
    IF in_edges(g, n) = <<>> THEN <<>>
    ELSE <<in_edges(g, n)[1]>> \o ancestors(g, in_edges(g, n)[1])

\* C4: for every terminal other than getRoot(G) the walk of selectHead meets
\* an ancestor, the constituency root 0 at the latest, whose candidate set is
\* not empty, so it returns a node and never asks for the father of the
\* root; enrichAstWithDeps raises only where getRoot does.
C4_SelectHeadTerminates ==
    /\ HasGraph =>
           \A n \in terminals(G) \ {getRoot(G)} :
               /\ \E k \in 1..Len(ancestors(G, n)) :
                      getCandidate(G, ancestors(G, n)[k], G.attr[n].start) # None
               /\ ancestors(G, n)[Len(ancestors(G, n))] = 0
               /\ selectHead(G, n) \in G.nodes
    /\ (pc = "error" /\ T = NoGraph) => terminals(G) = {}

\* C4 witness: a pass of enrichAstWithDeps whose walk finds no candidate
\* below the constituency root and finds one at the root.
C4_Witness ==
    /\ pc = "enrich"
    /\ LET n == Head(nodes)
           up == ancestors(G, n)
       IN  /\ Len(up) >= 2
           /\ \A k \in 1..(Len(up) - 1) : getCandidate(G, up[k], G.attr[n].start) = None
           /\ getCandidate(G, 0, G.attr[n].start) # None

\* The graph code2ast returns for the text, before any enrichment.
Ast == code2ast(tree, lang)

\* The attribute records of the terminals of g in ascending start order.
terminal_sequence(g) ==
    LET order == sort_by_start(g, terminals(g))
    IN  [k \in 1..Len(order) |-> g.attr[order[k]]]

\* How many nonterminals of g have the type name s.
type_count(g, s) == Cardinality({n \in g.nodes \ terminals(g) : g.attr[n].type = s})

\* The type names of the nonterminals of g.
nonterminal_types(g) == {g.attr[n].type : n \in g.nodes \ terminals(g)}

\* g and r have the same multiset of nonterminal type names.
SameTypeMultiset(g, r) ==
    \A s \in nonterminal_types(g) \cup nonterminal_types(r) :
        type_count(g, s) = type_count(r, s)

\* The python scaffold: the root is a module whose single child is a
\* function_definition, and the tree has three or more terminals.
OnScaffold ==
    /\ lang = "python"
    /\ Len(children(tree, 1)) = 1
    /\ Len(children(tree, 2)) > 0
    /\ tree.top = "function_definition"
    /\ Len(Leaves(tree, 1)) >= 3

\* The leftmost token is a child of the function_definition itself.
LeftmostUnderFunction == tree.parent[Head(Leaves(tree, 1))] = 2

\* The reconstruction of the text's labelled dependency tree is complete and
\* has the terminals of the constituency tree, in start order with their
\* attributes, and its multiset of nonterminal type names.
RoundTrip ==
    /\ pc # "error"
    /\ pc = "done" =>
           /\ terminal_sequence(T_ast) = terminal_sequence(Ast)
           /\ SameTypeMultiset(T_ast, Ast)

\* C3 as stated: on the python scaffold the round trip code2ast,
\* enrichAstWithDeps, getDependencyTree, labelDepTree,
\* from_label_dep_tree_to_ast(T, 'python') gives back the terminals in start
\* order with their attributes and the multiset of nonterminal type names.
C3_RoundTripOnScaffold == OnScaffold => RoundTrip

\* C3 amended: the same, for the trees whose leftmost terminal is a child of
\* the function_definition node.
C3_RoundTripLeftmostUnderFunction ==
    (OnScaffold /\ LeftmostUnderFunction) => RoundTrip

\* C3 witness: a finished round trip on such a tree with a nonterminal
\* below the function_definition and an edge whose special_index is not 0.
C3_Witness ==
    /\ OnScaffold /\ LeftmostUnderFunction
    /\ pc = "done"
    /\ Cardinality(T_ast.nodes \ terminals(T_ast)) >= 4
    /\ \E i \in 1..Len(T.edges) : T.edges[i].complex_edge.special_index > 0

\* C5: every label labelDepTree attaches has as many depths as
\* non_terminals, and a special_index that is an index of non_terminals (or 0
\* when non_terminals is empty); every edge has its label.
C5_LabelsWellFormed ==
    HasLabels =>
        \A i \in 1..Len(T.edges) :
            /\ "complex_edge" \in DOMAIN T.edges[i]
            /\ LET l == T.edges[i].complex_edge
               IN  /\ Len(l.non_terminals) = Len(l.depths)
                   /\ \/ 0 <= l.special_index /\ l.special_index < Len(l.non_terminals)
                      \/ l.special_index = 0 /\ Len(l.non_terminals) = 0

\* C5 witness: a labelled tree with an edge whose special_index is the last
\* index of a spine of two or more nonterminals.
C5_Witness ==
    /\ pc = "labelled"
    /\ \E i \in 1..Len(T.edges) :
           LET l == T.edges[i].complex_edge
           IN  l.special_index >= 1 /\ l.special_index = Len(l.non_terminals) - 1

\* code2ast made one graph node per node of the parser's tree.
C6_OneNodePerParserNode ==
    HasGraph => G.nodes = 0..(Len(tree.parent) - 1)

\* The ids are the pre-order numbers: node k of the graph is the k-th node of
\* the parser's tree in pre-order, and its father is the id of that node's
\* parent.
C6_PreOrderIds ==
    HasGraph =>
        LET order == DocOrder(tree, 1)
        IN  \A k \in 1..Len(order) :
                /\ G.attr[k - 1].type = type(tree, lang, order[k])
                /\ G.attr[k - 1].start = start_byte(tree, order[k])
                /\ G.attr[k - 1].end = end_byte(tree, order[k])
                /\ k > 1 => in_edges(G, k - 1)[1] = IndexOf(order, tree.parent[order[k]])
                /\ k > 1 => in_edges(G, k - 1)[1] < k - 1

\* is_terminal is true exactly of the nodes without children, the root
\* included.
C6_TerminalIffNoChildren ==
    HasGraph =>
        LET order == DocOrder(tree, 1)
        IN  \A k \in 1..Len(order) :
                G.attr[k - 1].is_terminal <=> (children(tree, order[k]) = <<>>)

\* C6: code2ast builds one graph node per node of the parser's tree, ids in
\* strictly increasing pre-order from the root 0, and is_terminal true if and
\* only if the node has no children in the parser's tree, the root included.
C6_Code2AstContract ==
    C6_OneNodePerParserNode /\ C6_PreOrderIds /\ C6_TerminalIffNoChildren

\* C7: for 'python' and for 'javascript', the graph
\* from_label_dep_tree_to_ast(T, lang) returns has exactly one terminal
\* node, with the same attributes, for each node of T.
C7_ReconstructionHasEveryTerminal ==
    pc = "done" =>
        /\ \A n \in T.nodes :
               Cardinality({m \in terminals(T_ast) : T_ast.attr[m] = T.attr[n]}) = 1
        /\ Cardinality(terminals(T_ast)) = Cardinality(T.nodes)

\* The length of the path from n to the root 0 of the constituency tree.
tree_depth(g, n) == Len(shortest_path(g, n, 0)) - 1

\* The spine labelDepTree read the label of the edge into n from.
spine_of(n) ==
    LET h == getHeadDepTree(T, n)
    IN  spine_to(Ast, h, n)

\* C8: in every label, depths[i] is the tree depth of the i-th spine
\* nonterminal, the length of its path to the root 0 of the constituency
\* tree.
C8_DepthsAreTreeDepths ==
    HasLabels =>
        \A i \in 1..Len(T.edges) :
            LET l == T.edges[i].complex_edge
                spine == spine_of(T.edges[i].dst)
            IN  \A k \in 1..Len(spine) : l.depths[k] = tree_depth(Ast, spine[k])

-----------------------------------------------------------------------------
(* Properties of getUAS *)

\* g is a tree: it has a node, one edge less than nodes, and is connected.
RECURSIVE component(_, _)
component(g, seen) ==
    LET more == {v \in 0..(g.n - 1) :
                    \E u \in seen : <<u, v>> \in g.edges \/ <<v, u>> \in g.edges}
    IN  IF more \subseteq seen THEN seen ELSE component(g, seen \cup more)

IsTree(g) ==
    /\ g.n >= 1
    /\ Cardinality(g.edges) = g.n - 1
    /\ component(g, {0}) = 0..(g.n - 1)

\* C9: getUAS(T, T) is 1.0 for every tree T, getUAS is 0.0 for two trees of
\* the same size that share no edge, and in general it is the number of
\* T_pred edges present in T_true over the number of T_pred edges.
C9_ScoreIsSharedFraction ==
    (pc = "scored" /\ IsTree(T_true) /\ IsTree(T_pred) /\ T_true.n = T_pred.n) =>
        /\ uas.raised = "none"
        /\ uas.count = Cardinality(T_pred.edges \cap T_true.edges)
        /\ uas.i = Cardinality(T_pred.edges)
        /\ T_true = T_pred => uas.count = uas.i
        /\ T_pred.edges \cap T_true.edges = {} => uas.count = 0

\* C10: getUAS raises, and returns no score, whenever the two trees differ
\* in node count or in edge count; a score it returns counts every edge of
\* T_pred against a T_true of the same size.
C10_SizeMismatchRaises ==
    pc = "scored" =>
        /\ (T_true.n # T_pred.n \/ Cardinality(T_true.edges) # Cardinality(T_pred.edges))
               => uas.raised = "AssertionError"
        /\ uas.raised = "none" =>
               /\ T_true.n = T_pred.n
               /\ Cardinality(T_true.edges) = Cardinality(T_pred.edges)
               /\ uas.i = Cardinality(T_pred.edges)

\* C10 witness: getUAS has raised on two graphs of the same node count and
\* different edge counts.
C10_Witness ==
    /\ pc = "scored"
    /\ T_true.n = T_pred.n
    /\ Cardinality(T_true.edges) # Cardinality(T_pred.edges)
    /\ uas.raised = "AssertionError"

-----------------------------------------------------------------------------
(* Properties of the reconstruction on its own *)

\* The pass of from_label_dep_tree_to_ast that raised was for a dependent
\* whose head is not the root and found no counterpart for the head or for
\* the head's head.
CorrespondenceMissing ==
    /\ pc = "error"
    /\ nodes # <<>>
    /\ LET h == getHeadDepTree(T, Head(nodes))
       IN  /\ h # IndexError
           /\ h # getRoot(T)
           /\ getHeadDepTree(T, h) # IndexError
           /\ \/ get_correspondence(T_ast, T, h) = None
              \/ get_correspondence(T_ast, T, getHeadDepTree(T, h)) = None

\* C11: when get_correspondence finds no counterpart for a head h or for the
\* head of h, from_label_dep_tree_to_ast ends with the error
\* CorrespondenceNotFoundError.
C11_CorrespondenceNotFoundIsDedicated ==
    CorrespondenceMissing => err = "CorrespondenceNotFoundError"

-----------------------------------------------------------------------------
(* Properties of the enrichment in place *)

\* The constituency tree alone: g without the edges enrichAstWithDeps added.
constituency(g) == [g EXCEPT !.edges = SelectSeq(@, LAMBDA e : e.label = "")]

\* The head of the terminal n in a constituency tree g: the terminal of
\* least start below the nearest ancestor of n that has a terminal starting
\* before n below it; None when no ancestor has one.
tree_head(g, n) ==
    LET before(p) == {m \in terminals(g) \cap reachable(g, {p}, {p}) :
                         g.attr[m].start < g.attr[n].start}
        up == ancestors(g, n)
        ks == {k \in 1..Len(up) : before(up[k]) # {}}
    IN  IF ks = {} THEN None
        ELSE CHOOSE m \in before(up[Min(ks)]) :
                 \A x \in before(up[Min(ks)]) : g.attr[m].start <= g.attr[x].start

\* g after the dependency edges of the terminals in todo were added, in the
\* order of todo, each from its head in the constituency tree g0.
RECURSIVE with_heads(_, _, _)
with_heads(g, g0, todo) ==
    IF todo = <<>> THEN g
    ELSE with_heads(add_edge(g, tree_head(g0, Head(todo)), Head(todo), "dependency"),
                    g0, Tail(todo))

\* C12: in every state of enrichAstWithDeps the head selectHead gives for a
\* terminal n other than the root, on G with the dependency edges added so
\* far, is the head of n in the constituency tree alone, and so is the source
\* of every dependency edge already in G; and whatever set of terminals has
\* its dependency edge in G already (whatever the order of processing),
\* selectHead gives that same head for every terminal.
C12_HeadIndependentOfAddedEdges ==
    /\ HasGraph =>
           /\ \A n \in terminals(G) \ {getRoot(G)} :
                  selectHead(G, n) = tree_head(constituency(G), n)
           /\ \A i \in 1..Len(G.edges) :
                  G.edges[i].label = "dependency"
                      => G.edges[i].src = tree_head(constituency(G), G.edges[i].dst)
    /\ (pc = "ast" /\ ~IsNone(G)) =>
           \A S \in SUBSET (terminals(G) \ {getRoot(G)}) :
               \A n \in terminals(G) \ {getRoot(G)} :
                   selectHead(with_heads(G, G, Sorted(S)), n) = tree_head(G, n)

\* C12 witness: on the G enrichAstWithDeps has added dependency edges to, an
\* ancestor that selectHead visits for some terminal n reaches terminals
\* that are not below it in the constituency tree, and selectHead gives n
\* its head in the constituency tree all the same.
C12_Witness ==
    /\ pc \in {"enrich", "enriched"}
    /\ \E n \in terminals(G) \ {getRoot(G)} :
           LET up == ancestors(G, n)
           IN  /\ selectHead(G, n) = tree_head(constituency(G), n)
               /\ selectHead(G, n) # getRoot(G)
               /\ \E k \in 1..Len(up) :
                      /\ \A j \in 1..(k - 1) :
                             getCandidate(G, up[j], G.attr[n].start) = None
                      /\ reachable(G, {up[k]}, {up[k]})
                             # reachable(constituency(G), {up[k]}, {up[k]})

-----------------------------------------------------------------------------
(* Properties of the lookup by attributes *)

\* The terminals from_label_dep_tree_to_ast has given a node of T_ast so
\* far, in the order it did: the root, then the dependents its loop has
\* passed.
inserted ==
    LET order == sort_by_start(T, T.nodes \ {getRoot(T)})
    IN  <<getRoot(T)>> \o SubSeq(order, 1, Len(order) - Len(nodes))

\* The node of T_ast that was created from the terminal x of T: ids grow
\* with every node added, so the k-th terminal inserted is the k-th terminal
\* of T_ast in id order.  None when x has no node yet.
created(x) ==
    IF x \notin Range(inserted) THEN None
    ELSE Sorted(terminals(T_ast))[IndexOf(inserted, x) + 1]

-----------------------------------------------------------------------------
(* Properties of the fallback of labelDepTree *)

\* The places in spine_n of the nodes that spine_head holds too.
shared_places(spine_n, spine_head) ==
    {j \in 1..Len(spine_n) : spine_n[j] \in Range(spine_head)}

\* C14: for the constituency graph code2ast returns (no dependency edge in
\* it) and the dependency tree T of the same text, every edge (h, n) of T
\* whose h is not the root has a node of spine_n in spine_head, and the
\* special_index labelDepTree records is the place of the last such node in
\* spine_head, never the fallback len(spine_n) - 1 of "no shared node".
C14_FallbackNeverTaken ==
    HasDepTree =>
        \A i \in 1..Len(T.edges) :
            LET g0 == code2ast(tree, lang)
                h == T.edges[i].src
                n == T.edges[i].dst
                spine_n == spine_to(g0, h, n)
                spine_head == spine_to(g0, h, getHeadDepTree(T, h))
                shared == shared_places(spine_n, spine_head)
            IN  h # getRoot(g0) =>
                    /\ shared # {}
                    /\ HasLabels =>
                           T.edges[i].complex_edge.special_index
                               = IndexOf(spine_head, spine_n[Max(shared)])

\* C14 witness: a labelled edge (h, n), h not the root, whose two spines
\* part: spine_n goes on after the last node it shares with spine_head, and
\* spine_head holds a node that spine_n does not.
C14_Witness ==
    /\ pc = "labelled"
    /\ \E i \in 1..Len(T.edges) :
           LET g0 == code2ast(tree, lang)
               h == T.edges[i].src
               n == T.edges[i].dst
               spine_n == spine_to(g0, h, n)
               spine_head == spine_to(g0, h, getHeadDepTree(T, h))
               shared == shared_places(spine_n, spine_head)
           IN  /\ h # getRoot(g0)
               /\ shared # {}
               /\ Max(shared) < Len(spine_n)
               /\ ~(Range(spine_head) \subseteq Range(spine_n))
               /\ T.edges[i].complex_edge.special_index
                      = IndexOf(spine_head, spine_n[Max(shared)])

-----------------------------------------------------------------------------
(* Properties of the constituency graph over the pipeline *)

\* g is a rooted tree: the root 0 has no incoming edge, every other node
\* has exactly one, and every node is reached from the root (so there is no
\* cycle).
IsRootedTree(g) ==
    /\ 0 \in g.nodes
    /\ Len(in_edges(g, 0)) = 0
    /\ \A n \in g.nodes \ {0} : Len(in_edges(g, n)) = 1
    /\ Len(g.edges) = Cardinality(g.nodes) - 1
    /\ reachable(g, {0}, {0}) = g.nodes

\* The edges enrichAstWithDeps added to g.
dependency_edges(g) == SelectSeq(g.edges, LAMBDA e : e.label = "dependency")

\* C15 as stated: the G code2ast returns is a rooted tree, and G is a rooted
\* tree in every later state of the pipeline.
C15_GStaysRootedTree == HasGraph => IsRootedTree(G)

\* C15 amended: the G code2ast returns is a rooted tree, and in every later
\* state the edges of G without the label 'dependency' are the edges of that
\* tree; those enrichAstWithDeps adds lead from a terminal to a terminal, at
\* most one into each, and after it there is one into every terminal but
\* the leftmost, whatever getDependencyTree and labelDepTree did since.
C15_ConstituencyEdgesStayRootedTree ==
    HasGraph =>
        /\ IsRootedTree(code2ast(tree, lang))
        /\ pc = "ast" => G = code2ast(tree, lang)
        /\ constituency(G) = code2ast(tree, lang)
        /\ Len(constituency(G).edges) + Len(dependency_edges(G)) = Len(G.edges)
        /\ \A i \in 1..Len(dependency_edges(G)) :
               /\ dependency_edges(G)[i].src \in terminals(G)
               /\ dependency_edges(G)[i].dst \in terminals(G) \ {getRoot(G)}
               /\ \A j \in 1..Len(dependency_edges(G)) :
                      dependency_edges(G)[i].dst = dependency_edges(G)[j].dst => i = j
        /\ pc \in {"enriched", "dep", "labelled", "recon", "done"}
               => Len(dependency_edges(G)) = Cardinality(terminals(G)) - 1

\* C15 witness: after labelDepTree, a G with two or more dependency edges
\* that is no rooted tree while its constituency edges form one.
C15_Witness ==
    /\ pc = "labelled"
    /\ Len(dependency_edges(G)) >= 2
    /\ ~IsRootedTree(G)
    /\ IsRootedTree(constituency(G))

=============================================================================
